---- MODULE Spec2Model ----
(***************************************************************************)
(* The calculator of src/src/App.tsx: one React reducer over a five-field  *)
(* state, driven by sixteen buttons.                                       *)
(*                                                                         *)
(* Numbers.  The fields displayValue and calculatedValue are IEEE-754      *)
(* doubles.  The model carries exactly those doubles whose value it can    *)
(* follow without rounding:                                                *)
(*   - [k |-> "fin", m, e]: the double nearest to the decimal m / 10^e     *)
(*     (normalised: e = 0 or m is not a multiple of 10).  For up to 15     *)
(*     significant digits String() of that double is the decimal literal   *)
(*     and parseFloat of the literal is that double;                       *)
(*   - Infinity, NegInfinity, NaN;                                         *)
(*   - Rounded: the result of an arithmetic operation that the model does  *)
(*     not follow (an operand that is not a binary fraction, or a quotient *)
(*     with more than MaxFrac decimals).  No explored state holds it: the  *)
(*     dispatch guard InBounds stops there.                                *)
(* The sign of zero is not carried.  In the program displayValue is -0     *)
(* only while calculatedValue is -0 too (a fold or equals wrote both), so  *)
(* no division ever sees -0 under a non-zero dividend, `${-0}` is "0" and   *)
(* -0 is falsy like 0: the sign of zero cannot be observed.                *)
(***************************************************************************)
EXTENDS Integers, Sequences, FiniteSets, TLC

\* state:      the reducer state held by useReducer
\* lastState:  the state the last dispatched action was applied to
\* lastAction: the last dispatched action
\* events:     the actions dispatched so far, recorded in scripted runs only
VARIABLES state, lastState, lastAction, events

vars == <<state, lastState, lastAction, events>>

\* ---------------------------------------------------------------- bounds
MaxMantissa == 15
MaxFrac == 1

\* --------------------------------------------------------------- numbers
Abs(n) == IF n < 0 THEN -n ELSE n

RECURSIVE Pow10(_)
Pow10(n) == IF n = 0 THEN 1 ELSE 10 * Pow10(n - 1)

RECURSIVE Pow5(_)
Pow5(n) == IF n = 0 THEN 1 ELSE 5 * Pow5(n - 1)

RECURSIVE Fin(_, _)
Fin(m, e) ==
  IF e > 0 /\ m % 10 = 0 THEN Fin(m \div 10, e - 1)
  ELSE [k |-> "fin", m |-> m, e |-> e]

Zero == [k |-> "fin", m |-> 0, e |-> 0]
Infinity == [k |-> "inf", m |-> 1, e |-> 0]
NegInfinity == [k |-> "inf", m |-> -1, e |-> 0]
NaN == [k |-> "nan", m |-> 0, e |-> 0]
Rounded == [k |-> "rounded", m |-> 0, e |-> 0]

Int2Num(n) == [k |-> "fin", m |-> n, e |-> 0]

IsNumber(v) == v.k \in {"fin", "inf", "nan", "rounded"}

\* The double is exactly the decimal (a binary fraction): 10^e / gcd(m, 10^e)
\* is a power of two.
IsExact(v) == v.k = "fin" /\ v.m % Pow5(v.e) = 0

Sign(n) == IF n < 0 THEN -1 ELSE IF n > 0 THEN 1 ELSE 0

\* JavaScript's ToBoolean on a number, negated: 0 and NaN are falsy.
Falsy(v) == v = Zero \/ v = NaN

InBounds(v) ==
  \/ v.k \in {"inf", "nan"}
  \/ v.k = "fin" /\ Abs(v.m) <= MaxMantissa /\ v.e <= MaxFrac

\* ------------------------------------------------------------ arithmetic
\* IEEE-754 arithmetic on the carried doubles.  A finite result is carried
\* when IEEE computes it without rounding error (x + 0, x - x, x * 0, x * 1,
\* x / 1, x / x, and any operation on binary fractions whose exact result is
\* a decimal of at most MaxFrac places); otherwise it is Rounded.
One == [k |-> "fin", m |-> 1, e |-> 0]

Max(a, b) == IF a >= b THEN a ELSE b

Neg(a) == IF a.k \in {"fin", "inf"} THEN [a EXCEPT !.m = -a.m] ELSE a

Add(a, b) ==
  IF a = NaN \/ b = NaN THEN NaN
  ELSE IF a.k = "rounded" \/ b.k = "rounded" THEN Rounded
  ELSE IF a.k = "inf" /\ b.k = "inf" THEN (IF a.m = b.m THEN a ELSE NaN)
  ELSE IF a.k = "inf" THEN a
  ELSE IF b.k = "inf" THEN b
  ELSE IF a = Zero THEN b
  ELSE IF b = Zero THEN a
  ELSE IF a = Neg(b) THEN Zero
  ELSE IF IsExact(a) /\ IsExact(b)
    THEN LET E == Max(a.e, b.e)
         IN  Fin(a.m * Pow10(E - a.e) + b.m * Pow10(E - b.e), E)
  ELSE Rounded

Subtract(a, b) == Add(a, Neg(b))

Multiply(a, b) ==
  IF a = NaN \/ b = NaN THEN NaN
  ELSE IF a.k = "rounded" \/ b.k = "rounded" THEN Rounded
  ELSE IF a.k = "inf" \/ b.k = "inf"
    THEN (IF a = Zero \/ b = Zero THEN NaN
          ELSE IF Sign(a.m) * Sign(b.m) > 0 THEN Infinity ELSE NegInfinity)
  ELSE IF a = Zero \/ b = Zero THEN Zero
  ELSE IF a = One THEN b
  ELSE IF b = One THEN a
  ELSE IF IsExact(a) /\ IsExact(b) THEN Fin(a.m * b.m, a.e + b.e)
  ELSE Rounded

\* A division that fails on a zero divisor instead of following IEEE-754.
DivideThrows(a, b) ==
  IF b = Zero THEN [k |-> "error", m |-> 0, e |-> 0]
  ELSE IF a = NaN \/ b = NaN THEN NaN
  ELSE IF a.k = "inf" /\ b.k = "inf" THEN NaN
  ELSE IF a.k = "inf" THEN (IF Sign(a.m) * Sign(b.m) > 0 THEN Infinity
                            ELSE NegInfinity)
  ELSE IF b.k = "inf" THEN Zero
  ELSE Rounded

Divide(a, b) ==
  IF a = NaN \/ b = NaN THEN NaN
  ELSE IF a.k = "rounded" \/ b.k = "rounded" THEN Rounded
  ELSE IF a.k = "inf"
    THEN (IF b.k = "inf" THEN NaN
          ELSE IF Sign(a.m) * (IF b.m < 0 THEN -1 ELSE 1) > 0 THEN Infinity
          ELSE NegInfinity)
  ELSE IF b.k = "inf" THEN Zero
  ELSE IF b = Zero
    THEN (IF a = Zero THEN NaN
          ELSE IF a.m > 0 THEN Infinity ELSE NegInfinity)
  ELSE IF a = Zero THEN Zero
  ELSE IF a = b THEN One
  ELSE IF b = One THEN a
  ELSE IF IsExact(a) /\ IsExact(b)
    THEN LET num == Abs(a.m) * Pow10(b.e + MaxFrac)
             den == Abs(b.m) * Pow10(a.e)
         IN  IF num % den = 0
               THEN Fin(Sign(a.m) * Sign(b.m) * (num \div den), MaxFrac)
               ELSE Rounded
  ELSE Rounded

calcActionType == {"subtract", "add", "multiply", "divide"}

isCalcAction(input) == input \in calcActionType

calcOperations(op, a, b) ==
  CASE op = "add" -> Add(a, b)
    [] op = "subtract" -> Subtract(a, b)
    [] op = "multiply" -> Multiply(a, b)
    [] op = "divide" -> Divide(a, b)

\* --------------------------------------------------- String and parseFloat
\* A string is a sequence of one-character strings.
DigitChars == <<"0", "1", "2", "3", "4", "5", "6", "7", "8", "9">>

IsDigitChar(c) == \E i \in 1..10 : DigitChars[i] = c

CharValue(c) == (CHOOSE i \in 1..10 : DigitChars[i] = c) - 1

RECURSIVE NatToString(_)
NatToString(n) ==
  IF n < 10 THEN <<DigitChars[n + 1]>>
  ELSE Append(NatToString(n \div 10), DigitChars[(n % 10) + 1])

\* The e decimals of the fraction f / 10^e, with its leading zeros.
RECURSIVE FracToString(_, _)
FracToString(f, e) ==
  IF e = 0 THEN <<>>
  ELSE Append(FracToString(f \div 10, e - 1), DigitChars[(f % 10) + 1])

InfinityString == <<"I", "n", "f", "i", "n", "i", "t", "y">>

\* `${x}` : Number::toString.  The decimal form; the exponent form is used
\* only from 1e21 up and below 1e-6, beyond the carried numbers.
NumberToString(v) ==
  CASE v.k = "nan" -> <<"N", "a", "N">>
    [] v.k = "inf" -> (IF v.m < 0 THEN <<"-">> ELSE <<>>) \o InfinityString
    [] v.k = "fin" ->
         (IF v.m < 0 THEN <<"-">> ELSE <<>>)
         \o NatToString(Abs(v.m) \div Pow10(v.e))
         \o (IF v.e > 0
               THEN <<".">> \o FracToString(Abs(v.m) % Pow10(v.e), v.e)
               ELSE <<>>)

\* The longest prefix of s made of digits.
RECURSIVE DigitPrefixLen(_)
DigitPrefixLen(s) ==
  IF s = <<>> \/ ~IsDigitChar(Head(s)) THEN 0
  ELSE 1 + DigitPrefixLen(Tail(s))

RECURSIVE DigitsValue(_)
DigitsValue(s) ==
  IF s = <<>> THEN 0
  ELSE 10 * DigitsValue(SubSeq(s, 1, Len(s) - 1)) + CharValue(s[Len(s)])

IsPrefix(p, s) == Len(p) <= Len(s) /\ SubSeq(s, 1, Len(p)) = p

\* parseFloat: an optional sign, then "Infinity" or the longest prefix that
\* is a decimal literal (digits, optionally a point and digits); what
\* follows is ignored; NaN when there is no such prefix.  The strings the
\* reducer builds never hold an exponent part, so none is read.
\* parseInt in place of parseFloat: the fraction is dropped.
parseIntOnly(s) ==
  LET sgn == IF s # <<>> /\ Head(s) = "-" THEN -1 ELSE 1
      body == IF s # <<>> /\ Head(s) \in {"-", "+"} THEN Tail(s) ELSE s
      nInt == DigitPrefixLen(body)
  IN  IF nInt = 0 THEN NaN
      ELSE Int2Num(sgn * DigitsValue(SubSeq(body, 1, nInt)))

\* A parser that skips every decimal point after the first instead of
\* stopping there.
RECURSIVE DropPoints(_)
DropPoints(s) ==
  IF s = <<>> THEN <<>>
  ELSE IF Head(s) = "." THEN DropPoints(Tail(s))
  ELSE <<Head(s)>> \o DropPoints(Tail(s))

parseFloatSkipPoints(s) ==
  LET sgn == IF s # <<>> /\ Head(s) = "-" THEN -1 ELSE 1
      body == IF s # <<>> /\ Head(s) \in {"-", "+"} THEN Tail(s) ELSE s
      nInt == DigitPrefixLen(body)
      afterInt == SubSeq(body, nInt + 1, Len(body))
      hasPoint == afterInt # <<>> /\ Head(afterInt) = "."
      frac == IF hasPoint THEN DropPoints(Tail(afterInt)) ELSE <<>>
      nFrac == DigitPrefixLen(frac)
  IN  IF IsPrefix(InfinityString, body)
        THEN (IF sgn < 0 THEN NegInfinity ELSE Infinity)
      ELSE IF nInt + nFrac = 0 THEN NaN
      ELSE Fin(sgn * DigitsValue(SubSeq(body, 1, nInt)
                                 \o SubSeq(frac, 1, nFrac)), nFrac)

parseFloat(s) ==
  LET hasSign == s # <<>> /\ Head(s) \in {"-", "+"}
      sgn == IF s # <<>> /\ Head(s) = "-" THEN -1 ELSE 1
      body == IF hasSign THEN Tail(s) ELSE s
      nInt == DigitPrefixLen(body)
      afterInt == SubSeq(body, nInt + 1, Len(body))
      hasPoint == afterInt # <<>> /\ Head(afterInt) = "."
      nFrac == IF hasPoint THEN DigitPrefixLen(Tail(afterInt)) ELSE 0
      digits == SubSeq(body, 1, nInt)
                \o (IF hasPoint THEN SubSeq(Tail(afterInt), 1, nFrac)
                    ELSE <<>>)
  IN  IF IsPrefix(InfinityString, body)
        THEN (IF sgn < 0 THEN NegInfinity ELSE Infinity)
      ELSE IF nInt + nFrac = 0 THEN NaN
      ELSE Fin(sgn * DigitsValue(digits), nFrac)

\* ----------------------------------------------------------------- reducer
initialState ==
  [displayValue |-> Zero,
   calculatedValue |-> Zero,
   lastOperation |-> "",
   shouldAddComma |-> FALSE,
   shouldResetDisplay |-> FALSE]

Digits == 0..9

InputAction(d) == [type |-> "input", payload |-> d]
PlainAction(t) == [type |-> t]

Actions ==
  {InputAction(d) : d \in Digits}
  \cup {PlainAction(t) : t \in calcActionType \cup {"equals", "comma", "clear"}}

\* The template without the reset of shouldResetDisplay.
updatedStateKeepReset(previousState, action) ==
  [previousState EXCEPT !.lastOperation = action.type,
                        !.shouldAddComma = FALSE]

updatedState(previousState, action) ==
  [previousState EXCEPT !.lastOperation = action.type,
                        !.shouldAddComma = FALSE,
                        !.shouldResetDisplay = FALSE]

\* The comma case without the write-back of the previous lastOperation.
CommaCaseTagged(previousState, action) ==
  [previousState EXCEPT !.lastOperation = action.type,
                        !.shouldAddComma = TRUE,
                        !.shouldResetDisplay = FALSE]

CommaCase(previousState, action) ==
  [updatedState(previousState, action)
     EXCEPT !.lastOperation = previousState.lastOperation,
            !.shouldAddComma = TRUE]

\* Digit entry that appends also when shouldResetDisplay is set.
InputCaseAppend(previousState, action) ==
  LET newValue ==
        parseFloat(NumberToString(previousState.displayValue)
                   \o (IF previousState.shouldAddComma THEN <<".">> ELSE <<>>)
                   \o NumberToString(Int2Num(action.payload)))
  IN  [previousState EXCEPT !.shouldAddComma = FALSE,
                            !.shouldResetDisplay = FALSE,
                            !.displayValue = newValue]

\* The input case without the write-back of the previous lastOperation.
InputCaseTagged(previousState, action) ==
  LET newValue ==
        IF previousState.shouldResetDisplay
          THEN Int2Num(action.payload)
          ELSE parseFloat(NumberToString(previousState.displayValue)
                          \o (IF previousState.shouldAddComma
                                THEN <<".">> ELSE <<>>)
                          \o NumberToString(Int2Num(action.payload)))
  IN  [previousState EXCEPT !.lastOperation = action.type,
                            !.shouldAddComma = FALSE,
                            !.shouldResetDisplay = FALSE,
                            !.displayValue = newValue]

\* The input case with a decimal point that stays pending while the digit
\* leaves the number unchanged (a 0 typed right after the point).
InputCaseKeepComma(previousState, action) ==
  LET newValue ==
        IF previousState.shouldResetDisplay
          THEN Int2Num(action.payload)
          ELSE parseFloat(NumberToString(previousState.displayValue)
                          \o (IF previousState.shouldAddComma
                                THEN <<".">> ELSE <<>>)
                          \o NumberToString(Int2Num(action.payload)))
  IN  [previousState
         EXCEPT !.shouldAddComma = /\ previousState.shouldAddComma
                                   /\ ~previousState.shouldResetDisplay
                                   /\ newValue = previousState.displayValue,
                !.shouldResetDisplay = FALSE,
                !.displayValue = newValue]

InputCase(previousState, action) ==
  LET newValue ==
        IF previousState.shouldResetDisplay
          THEN Int2Num(action.payload)
          ELSE parseFloat(NumberToString(previousState.displayValue)
                          \o (IF previousState.shouldAddComma
                                THEN <<".">> ELSE <<>>)
                          \o NumberToString(Int2Num(action.payload)))
  IN  [updatedState(previousState, action)
         EXCEPT !.lastOperation = previousState.lastOperation,
                !.displayValue = newValue]

\* The operator cases with a new-chain branch built on previousState, so
\* that the operator is not recorded after an equals.
CalcCaseStaleTag(previousState, action) ==
  IF previousState.lastOperation = "equals"
    THEN [previousState EXCEPT !.shouldAddComma = FALSE,
                               !.shouldResetDisplay = TRUE]
  ELSE IF Falsy(previousState.calculatedValue)
    THEN [previousState EXCEPT !.lastOperation = action.type,
                               !.shouldAddComma = FALSE,
                               !.calculatedValue = previousState.displayValue,
                               !.shouldResetDisplay = TRUE]
  ELSE LET newValue == calcOperations(action.type,
                                      previousState.calculatedValue,
                                      previousState.displayValue)
       IN  [previousState EXCEPT !.lastOperation = action.type,
                                 !.shouldAddComma = FALSE,
                                 !.displayValue = newValue,
                                 !.calculatedValue = newValue,
                                 !.shouldResetDisplay = TRUE]

CalcCase(previousState, action) ==
  IF previousState.lastOperation = "equals"
    THEN [updatedState(previousState, action)
            EXCEPT !.shouldResetDisplay = TRUE]
  ELSE IF Falsy(previousState.calculatedValue)
    THEN [updatedState(previousState, action)
            EXCEPT !.calculatedValue = previousState.displayValue,
                   !.shouldResetDisplay = TRUE]
  ELSE LET newValue == calcOperations(action.type,
                                      previousState.calculatedValue,
                                      previousState.displayValue)
       IN  [updatedState(previousState, action)
              EXCEPT !.displayValue = newValue,
                     !.calculatedValue = newValue,
                     !.shouldResetDisplay = TRUE]

\* Equals that keeps the pending operator, so that a repeated equals
\* applies it again.
EqualsCaseRepeat(previousState, action) ==
  LET newValue ==
        IF isCalcAction(previousState.lastOperation)
          THEN calcOperations(previousState.lastOperation,
                              previousState.calculatedValue,
                              previousState.displayValue)
          ELSE previousState.calculatedValue
  IN  [previousState EXCEPT !.displayValue = newValue,
                            !.calculatedValue = newValue,
                            !.shouldAddComma = FALSE,
                            !.shouldResetDisplay = TRUE]

\* Equals that forgets the operation once it is applied.
EqualsCaseForget(previousState, action) ==
  LET newValue ==
        IF isCalcAction(previousState.lastOperation)
          THEN calcOperations(previousState.lastOperation,
                              previousState.calculatedValue,
                              previousState.displayValue)
          ELSE previousState.calculatedValue
  IN  [previousState EXCEPT !.displayValue = newValue,
                            !.calculatedValue = newValue,
                            !.lastOperation = "",
                            !.shouldAddComma = FALSE,
                            !.shouldResetDisplay = TRUE]

\* Equals that applies the pending operator with its operands swapped.
EqualsCaseSwapped(previousState, action) ==
  LET newValue ==
        IF isCalcAction(previousState.lastOperation)
          THEN calcOperations(previousState.lastOperation,
                              previousState.displayValue,
                              previousState.calculatedValue)
          ELSE previousState.calculatedValue
  IN  [previousState EXCEPT !.displayValue = newValue,
                            !.calculatedValue = newValue,
                            !.lastOperation = "equals",
                            !.shouldAddComma = FALSE,
                            !.shouldResetDisplay = TRUE]

\* Equals that keeps the typed number when no operator is pending.
EqualsCaseKeepDisplay(previousState, action) ==
  LET newValue ==
        IF isCalcAction(previousState.lastOperation)
          THEN calcOperations(previousState.lastOperation,
                              previousState.calculatedValue,
                              previousState.displayValue)
          ELSE previousState.displayValue
  IN  [previousState EXCEPT !.displayValue = newValue,
                            !.calculatedValue = newValue,
                            !.lastOperation = "equals",
                            !.shouldAddComma = FALSE,
                            !.shouldResetDisplay = TRUE]

EqualsCase(previousState, action) ==
  LET newValue ==
        IF isCalcAction(previousState.lastOperation)
          THEN calcOperations(previousState.lastOperation,
                              previousState.calculatedValue,
                              previousState.displayValue)
          ELSE previousState.calculatedValue
  IN  [updatedState(previousState, action)
         EXCEPT !.displayValue = newValue,
                !.calculatedValue = newValue,
                !.shouldResetDisplay = TRUE]

\* Clear that resets the display only.
ClearCaseDisplayOnly(previousState, action) ==
  [previousState EXCEPT !.displayValue = Zero,
                        !.lastOperation = "",
                        !.shouldAddComma = FALSE,
                        !.shouldResetDisplay = FALSE]

ClearCase(previousState, action) == initialState

reducer(previousState, action) ==
  CASE action.type = "comma" -> CommaCase(previousState, action)
    [] action.type = "input" -> InputCase(previousState, action)
    [] action.type \in calcActionType -> CalcCase(previousState, action)
    [] action.type = "equals" -> EqualsCase(previousState, action)
    [] action.type = "clear" -> ClearCase(previousState, action)
    [] OTHER -> updatedState(previousState, action)

\* ------------------------------------------------------------ the machine
NoAction == [type |-> "none"]

Init ==
  /\ state = initialState
  /\ lastState = initialState
  /\ lastAction = NoAction
  /\ events = <<>>

\* dispatch(a): useReducer replaces the state by reducer(state, a).  Runs
\* stop where a value leaves the carried numbers.
Dispatch(a) ==
  /\ state' = reducer(state, a)
  /\ InBounds(state'.displayValue)
  /\ InBounds(state'.calculatedValue)
  /\ lastState' = state
  /\ lastAction' = a

Input(d) == Dispatch(InputAction(d)) /\ UNCHANGED events

Comma == Dispatch(PlainAction("comma")) /\ UNCHANGED events

Calc(op) == Dispatch(PlainAction(op)) /\ UNCHANGED events

Equals == Dispatch(PlainAction("equals")) /\ UNCHANGED events

Clear == Dispatch(PlainAction("clear")) /\ UNCHANGED events

Next ==
  \/ \E d \in Digits : Input(d)
  \/ Comma
  \/ \E op \in calcActionType : Calc(op)
  \/ Equals
  \/ Clear

Spec == Init /\ [][Next]_vars

\* The state after dispatching the actions of seq, in order, from the
\* initial state.
RECURSIVE Run(_)
Run(seq) ==
  IF seq = <<>> THEN initialState
  ELSE reducer(Run(SubSeq(seq, 1, Len(seq) - 1)), seq[Len(seq)])

\* Any state the State type admits, reachable or not, as the starting state.
SampleNumbers ==
  {Zero, One, Int2Num(8), Int2Num(99), Int2Num(-3), Fin(25, 1), Infinity, NaN}

SampleOperations ==
  {""} \cup calcActionType \cup {"equals", "input", "comma", "clear"}

AnyState ==
  [displayValue : SampleNumbers,
   calculatedValue : SampleNumbers,
   lastOperation : SampleOperations,
   shouldAddComma : BOOLEAN,
   shouldResetDisplay : BOOLEAN]

InitAny ==
  /\ state \in AnyState
  /\ lastState = state
  /\ lastAction = NoAction
  /\ events = <<>>

SpecAny == InitAny /\ [][Next]_vars

\* Scripted runs: the dispatched actions are recorded in events and follow
\* one of the scripts, a sequence of action kinds.
ActionKind(a) == IF isCalcAction(a.type) THEN "calc" ELSE a.type

Scripts ==
  {<<"input", "calc", "input", "calc", "input", "equals">>,
   <<"input", "calc", "comma", "input">>,
   <<"input", "calc", "input", "equals", "comma", "comma", "input">>}

FollowsScript(ev) ==
  \E t \in Scripts :
    /\ Len(ev) <= Len(t)
    /\ \A i \in 1..Len(ev) : ActionKind(ev[i]) = t[i]

ScriptStep(a) ==
  /\ FollowsScript(Append(events, a))
  /\ Dispatch(a)
  /\ events' = Append(events, a)

ScriptNext == \E a \in Actions : ScriptStep(a)

SpecScript == Init /\ [][ScriptNext]_vars

\* ------------------------------------------------------------- properties
IsState(s) ==
  /\ DOMAIN s = {"displayValue", "calculatedValue", "lastOperation",
                 "shouldAddComma", "shouldResetDisplay"}
  /\ IsNumber(s.displayValue)
  /\ IsNumber(s.calculatedValue)
  /\ s.lastOperation \in SampleOperations
  /\ s.shouldAddComma \in BOOLEAN
  /\ s.shouldResetDisplay \in BOOLEAN

\* C1: whatever the state it is applied to, a clear action yields exactly
\* the initial state, and a second clear applied to the result changes
\* nothing.
C1_ClearYieldsInitialState ==
  lastAction.type = "clear" =>
    /\ state = initialState
    /\ reducer(state, PlainAction("clear")) = state

C1_Witness ==
  /\ lastAction.type = "clear"
  /\ lastState.displayValue # Zero
  /\ lastState.calculatedValue # Zero
  /\ lastState.lastOperation # ""
  /\ lastState.shouldResetDisplay

\* C2: the scripted run Digit(a), Operator(op), Digit(b), Operator(op),
\* Digit(c), Equals from the initial state ends with
\* displayValue = op(op(a, b), c).
C2_ChainFoldsLeftToRight ==
  (/\ Len(events) = 6
   /\ events[2] = events[4])
  => state.displayValue =
       calcOperations(events[2].type,
                      calcOperations(events[2].type,
                                     Int2Num(events[1].payload),
                                     Int2Num(events[3].payload)),
                      Int2Num(events[5].payload))

\* C3: an equals action applied to the result of an equals action leaves
\* all five fields as they are.
C3_RepeatedEqualsIsNoOp ==
  lastAction.type = "equals" =>
    reducer(state, PlainAction("equals")) = state

C3_Witness ==
  /\ lastAction.type = "equals"
  /\ lastState.lastOperation = "equals"
  /\ lastState.displayValue = Int2Num(8)
  /\ lastState.calculatedValue = Int2Num(8)
  /\ state.displayValue = Int2Num(8)

\* The last dispatched action divided calculatedValue by a displayValue
\* of 0: an equals with a pending divide, or a divide taking the fold branch.
DividedByZero ==
  /\ lastState.displayValue = Zero
  /\ \/ lastAction.type = "equals" /\ lastState.lastOperation = "divide"
     \/ /\ lastAction.type = "divide"
        /\ lastState.lastOperation # "equals"
        /\ ~Falsy(lastState.calculatedValue)

AllActionsAccepted == \A a \in Actions : IsState(reducer(state, a))

C5_DigitAfterResetOverwrites ==
  (lastAction.type = "input" /\ lastState.shouldResetDisplay)
    => state.displayValue = Int2Num(lastAction.payload)

C5_Witness ==
  /\ lastAction = InputAction(3)
  /\ lastState.shouldResetDisplay
  /\ lastState.shouldAddComma
  /\ lastState.displayValue = Int2Num(99)
  /\ state.displayValue = Int2Num(3)

C7_OnlyClearEmptiesLastOperation ==
  (lastState.lastOperation # "" /\ state.lastOperation = "")
    => lastAction.type = "clear"

C7_Witness ==
  /\ lastState.lastOperation = "equals"
  /\ state.lastOperation = ""
  /\ lastAction.type = "clear"

\* C8: shouldAddComma and shouldResetDisplay are never both set.
C8_CommaAndResetExclusive ==
  ~(state.shouldAddComma /\ state.shouldResetDisplay)

C8_Witness ==
  /\ lastAction.type = "comma"
  /\ lastState.shouldResetDisplay
  /\ state.shouldAddComma
  /\ ~state.shouldResetDisplay

\* C9: an operator dispatched on a state with lastOperation = "equals"
\* keeps displayValue and calculatedValue, sets shouldResetDisplay, clears
\* shouldAddComma and records the operator; and the action dispatched just
\* before such an operator is always an equals.
C9_NewChainOnlyRightAfterEquals ==
  [][(isCalcAction(lastAction'.type) /\ state.lastOperation = "equals")
       => /\ state'.displayValue = state.displayValue
          /\ state'.calculatedValue = state.calculatedValue
          /\ state'.shouldResetDisplay
          /\ ~state'.shouldAddComma
          /\ state'.lastOperation = lastAction'.type
          /\ lastAction.type = "equals"]_vars

\* C10: an operator op dispatched on a state with lastOperation # "equals"
\* and a non-zero calculatedValue sets displayValue and calculatedValue to
\* op(calculatedValue, displayValue), sets shouldResetDisplay and records op.
C10_FoldWithDispatchedOperator ==
  (/\ isCalcAction(lastAction.type)
   /\ lastState.lastOperation # "equals"
   /\ lastState.calculatedValue # Zero)
  => LET v == calcOperations(lastAction.type,
                             lastState.calculatedValue,
                             lastState.displayValue)
     IN  /\ state.displayValue = v
         /\ state.calculatedValue = v
         /\ state.shouldResetDisplay
         /\ state.lastOperation = lastAction.type

\* C11: an operator op dispatched on a state with lastOperation # "equals"
\* and calculatedValue = 0 copies displayValue into calculatedValue, keeps
\* displayValue, sets shouldResetDisplay and records op; and this happens
\* only while no operator is pending, that is, no operator was dispatched
\* since the last clear or equals (lastOperation is not an operator tag).
C11_SeedOnlyWithoutPendingOperand ==
  (/\ isCalcAction(lastAction.type)
   /\ lastState.lastOperation # "equals"
   /\ lastState.calculatedValue = Zero)
  => /\ state.calculatedValue = lastState.displayValue
     /\ state.displayValue = lastState.displayValue
     /\ state.shouldResetDisplay
     /\ state.lastOperation = lastAction.type
     /\ ~isCalcAction(lastState.lastOperation)

\* C12: an equals dispatched on a state whose lastOperation is one of the
\* four operators sets displayValue and calculatedValue to
\* lastOperation(calculatedValue, displayValue), sets shouldResetDisplay,
\* clears shouldAddComma and sets lastOperation to "equals".
C12_EqualsAppliesPendingOperator ==
  (lastAction.type = "equals" /\ isCalcAction(lastState.lastOperation))
  => LET a == lastState.calculatedValue
         b == lastState.displayValue
         v == CASE lastState.lastOperation = "add" -> Add(a, b)
                [] lastState.lastOperation = "subtract" -> Subtract(a, b)
                [] lastState.lastOperation = "multiply" -> Multiply(a, b)
                [] lastState.lastOperation = "divide" -> Divide(a, b)
     IN  /\ state.displayValue = v
         /\ state.calculatedValue = v
         /\ state.shouldResetDisplay
         /\ ~state.shouldAddComma
         /\ state.lastOperation = "equals"

C12_Witness ==
  /\ lastAction.type = "equals"
  /\ lastState.lastOperation = "subtract"
  /\ lastState.calculatedValue = Int2Num(8)
  /\ lastState.displayValue = Int2Num(-3)
  /\ lastState.shouldAddComma
  /\ state.displayValue = Int2Num(11)

\* C13: an equals dispatched on a state whose lastOperation is "" or
\* "equals" sets displayValue to calculatedValue, dropping the number in
\* the display, keeps calculatedValue, sets shouldResetDisplay and sets
\* lastOperation to "equals"; Digit(5), Equals from the initial state
\* shows 0.
C13_EqualsWithoutPendingOperator ==
  (lastAction.type = "equals" /\ lastState.lastOperation \in {"", "equals"})
  => /\ state.displayValue = lastState.calculatedValue
     /\ state.calculatedValue = lastState.calculatedValue
     /\ state.shouldResetDisplay
     /\ state.lastOperation = "equals"

C13_Witness ==
  /\ lastAction.type = "equals"
  /\ lastState = [initialState EXCEPT !.displayValue = Int2Num(5)]
  /\ state.displayValue = Zero

\* C14: in a scripted run, a digit d that follows an operator or an equals,
\* with nothing but decimal-point actions in between, sets displayValue = d.
C14_DigitAfterOperatorStartsFresh ==
  LET n == Len(events)
  IN  (/\ n >= 2
       /\ events[n].type = "input"
       /\ \E j \in 1..(n - 1) :
            /\ ActionKind(events[j]) \in {"calc", "equals"}
            /\ \A i \in (j + 1)..(n - 1) : events[i].type = "comma")
      => state.displayValue = Int2Num(events[n].payload)

\* C15: a decimal-point action keeps displayValue, calculatedValue and
\* lastOperation, sets shouldAddComma and clears shouldResetDisplay, also
\* when shouldResetDisplay was set.
C15_DecimalFrame ==
  lastAction.type = "comma" =>
    /\ state.displayValue = lastState.displayValue
    /\ state.calculatedValue = lastState.calculatedValue
    /\ state.lastOperation = lastState.lastOperation
    /\ state.shouldAddComma
    /\ ~state.shouldResetDisplay

C15_Witness ==
  /\ lastAction.type = "comma"
  /\ lastState.shouldResetDisplay
  /\ lastState.lastOperation = "add"
  /\ lastState.displayValue = Int2Num(8)
  /\ lastState.calculatedValue = Int2Num(-3)
  /\ state.lastOperation = "add"
  /\ ~state.shouldResetDisplay

\* C16: a digit action keeps lastOperation and calculatedValue and leaves
\* shouldAddComma and shouldResetDisplay both unset.
C16_DigitFrame ==
  lastAction.type = "input" =>
    /\ state.lastOperation = lastState.lastOperation
    /\ state.calculatedValue = lastState.calculatedValue
    /\ ~state.shouldAddComma
    /\ ~state.shouldResetDisplay

C16_Witness ==
  /\ lastAction.type = "input"
  /\ lastState.lastOperation = "multiply"
  /\ lastState.calculatedValue = Int2Num(8)
  /\ lastState.shouldResetDisplay
  /\ state.displayValue # lastState.displayValue
  /\ state.lastOperation = "multiply"

\* C17: lastOperation is the tag of the most recent operator or equals
\* dispatched since the last clear, "" if there is none: each operator and
\* equals records its tag, clear empties it, digits and decimal points keep
\* it; it is never "input", "comma" or "clear".
C17_LastOperationIsLastOperatorOrEquals ==
  /\ state.lastOperation \in {""} \cup calcActionType \cup {"equals"}
  /\ state.lastOperation =
       IF isCalcAction(lastAction.type) \/ lastAction.type = "equals"
         THEN lastAction.type
       ELSE IF lastAction.type = "clear" THEN ""
       ELSE lastState.lastOperation

C17_Witness ==
  /\ lastAction.type = "input"
  /\ lastState.lastOperation = "equals"
  /\ lastState.shouldAddComma
  /\ state.lastOperation = "equals"

\* C18: a digit 0 dispatched right after a decimal point on an integer
\* displayValue n leaves displayValue = n and clears shouldAddComma, so the
\* point is lost: Digit(1), Decimal, Digit(0), Digit(5) from the initial
\* state shows 15.
C18_ZeroAfterDecimalLosesPoint ==
  /\ (/\ lastAction = InputAction(0)
      /\ lastState.shouldAddComma
      /\ ~lastState.shouldResetDisplay
      /\ lastState.displayValue.k = "fin"
      /\ lastState.displayValue.e = 0)
     => /\ state.displayValue = lastState.displayValue
        /\ ~state.shouldAddComma
  /\ Run(<<InputAction(1), PlainAction("comma"),
           InputAction(0), InputAction(5)>>).displayValue = Int2Num(15)

C18_Witness ==
  /\ lastAction = InputAction(0)
  /\ lastState = [initialState EXCEPT !.displayValue = One,
                                      !.shouldAddComma = TRUE]
  /\ state = [initialState EXCEPT !.displayValue = One]

\* C19: on a displayValue with a fractional part, a decimal point followed
\* by a digit leaves displayValue unchanged, whatever the digit: Digit(1),
\* Decimal, Digit(5), Decimal, Digit(2) from the initial state shows 1.5.
C19_SecondDecimalPointDropsDigit ==
  /\ (/\ lastAction.type = "input"
      /\ lastState.shouldAddComma
      /\ ~lastState.shouldResetDisplay
      /\ lastState.displayValue.k = "fin"
      /\ lastState.displayValue.e > 0)
     => state.displayValue = lastState.displayValue
  /\ Run(<<InputAction(1), PlainAction("comma"), InputAction(5),
           PlainAction("comma"), InputAction(2)>>).displayValue = Fin(15, 1)

C19_Witness ==
  /\ lastAction = InputAction(2)
  /\ lastState = [initialState EXCEPT !.displayValue = Fin(15, 1),
                                      !.shouldAddComma = TRUE]
  /\ state.displayValue = Fin(15, 1)

\* C20: an operator op2 dispatched directly after another operator, on a
\* non-zero calculatedValue, sets displayValue and calculatedValue to
\* op2(calculatedValue, displayValue); Digit(5), Operator(add),
\* Operator(add) from the initial state shows 10.
C20_OperatorAfterOperatorFolds ==
  [][(/\ isCalcAction(lastAction.type)
      /\ isCalcAction(lastAction'.type)
      /\ state.calculatedValue # Zero)
     => /\ state'.displayValue =
             calcOperations(lastAction'.type, state.calculatedValue,
                            state.displayValue)
        /\ state'.calculatedValue = state'.displayValue
        /\ Run(<<InputAction(5), PlainAction("add"),
                 PlainAction("add")>>).displayValue = Int2Num(10)]_vars
====
